---- MODULE Spec2Model ----
(***************************************************************************)
(* Rate limiters of src/bin/rate_limiter.rs: FixedWindow, MovingWindow and *)
(* TokenBucket, the three implementations of the RateLimiter trait.       *)
(*                                                                         *)
(* Time is counted in microseconds, the unit the code converts to with     *)
(* as_micros().  One limiter instance exists per behaviour; `kind` says    *)
(* which struct it is.  Instant::now() is the variable `now`; the caller   *)
(* lets time pass with Sleep and calls allowed().                          *)
(*                                                                         *)
(* The Dispatcher of src/bin/dispatcher.rs is modelled next to them, under *)
(* its own specification: a producer that posts bodies and flushes, the    *)
(* channel of capacity 1, and the consumer task that maps each body to a   *)
(* client post and runs at most `concurrency` of them at a time.           *)
(***************************************************************************)
EXTENDS Integers, Sequences, FiniteSets

----------------------------------------------------------------------------
(* Bounds of the model. *)

\* Largest window, in microseconds, of the exhaustive specification.
MaxWindow == 3

\* Largest limit.
MaxLimit == 2

\* The clock stops at MaxWindows * window after construction.
MaxWindows == 4

\* Most allowed() calls issued at one instant.
MaxCalls == 3

Kinds == {"FixedWindow", "MovingWindow", "TokenBucket"}

\* Most bodies the producer posts before it flushes.
MaxPosts == 3

\* Largest concurrency of a Dispatcher.
MaxConcurrency == 2

\* The JSON bodies posted.
Bodies == {"a", "b"}

\* The implementations of Client: MockClient's post completes the first time
\* it is polled; ReqwestClient's post awaits the network and may fail.
Clients == {"MockClient", "ReqwestClient"}

----------------------------------------------------------------------------
VARIABLES
    kind,           \* which implementation of RateLimiter the instance is,
                    \* or "Dispatcher"
    window,         \* window: time::Duration, in microseconds
    limit,          \* limit: usize
    now,            \* what Instant::now() returns, microseconds since construction
    window_start,   \* FixedWindow.window_start
    hits,           \* FixedWindow.hits
    prev_start,     \* MovingWindow.prev_start
    prev_count,     \* MovingWindow.prev_count
    this_start,     \* MovingWindow.this_start
    this_count,     \* MovingWindow.this_count
    tokens,         \* TokenBucket.tokens
    last_hit,       \* TokenBucket.last_hit
    ret,            \* the value the latest allowed() call returned
    admitted,       \* how many TokenBucket calls returned true so far
    fault,          \* "none", or how a call failed to return: "div_by_zero" and
                    \* "overflow" are panics, "hang" is a loop that never ends
    calls,          \* history: allowed() calls issued at the instant `now`
    wcalls,         \* history: FixedWindow calls since the latest one that came
                    \*          later than window_start + window (that one included)
    fresh,          \* history: no allowed() call was issued before the instant `now`
    last_call,      \* history: instant of the latest MovingWindow call, -1 if none
    gap,            \* history: microseconds between the latest MovingWindow call
                    \*          and the one before it, -1 if there was none before
    log,            \* history: instants of the admitted MovingWindow calls
                    \*          of the last 2 * window microseconds
    concurrency,    \* the concurrency given to Dispatcher::new
    client,         \* which implementation of Client the dispatcher was given
    dispatch,       \* the producer's handle: "open", "flushing" once flush() has
                    \* dropped tx, "flushed" once flush() has returned
    chan,           \* the bodies held by the mpsc channel
    in_progress,    \* the post futures held by buffer_unordered, oldest first:
                    \* [body, started], started once the future was polled
    received,       \* the bodies the client has received, in order
    count,          \* the consumer's count of successful posts
    consumer,       \* the consumer task: "running" or "finished"
    posted          \* history: the bodies post() has accepted, in order

cfg == <<kind, window, limit>>
fw == <<window_start, hits>>
mw == <<prev_start, prev_count, this_start, this_count>>
tb == <<tokens, last_hit>>
dp == <<concurrency, client, dispatch, chan, in_progress, received, count,
        consumer, posted>>
vars == <<kind, window, limit, now, window_start, hits, prev_start, prev_count,
          this_start, this_count, tokens, last_hit, ret, admitted, fault,
          calls, wcalls, fresh, last_call, gap, log, concurrency, client,
          dispatch, chan, in_progress, received, count, consumer, posted>>

\* The last instant the model's clock reaches.
Horizon == IF window = 0 THEN MaxWindows ELSE MaxWindows * window

----------------------------------------------------------------------------
(* Construction: FixedWindow::new, MovingWindow::new, TokenBucket::new.     *)
(* Each reads Instant::now() once; that instant is time 0.                  *)

\* A behaviour of the limiters has no dispatcher.
NoDispatcher ==
    /\ concurrency = 0 /\ client = "none" /\ dispatch = "none"
    /\ chan = <<>> /\ in_progress = <<>> /\ received = <<>>
    /\ count = 0 /\ consumer = "none" /\ posted = <<>>

\* A bucket that starts full.
InitialTokensFull(l) == l

\* tokens: 0 in TokenBucket::new
InitialTokens(l) == 0

New(k, w, l) ==
    /\ kind = k
    /\ window = w
    /\ limit = l
    /\ now = 0
    /\ window_start = 0 /\ hits = 0
    /\ prev_start = 0 /\ prev_count = 0 /\ this_start = 0 /\ this_count = 0
    /\ tokens = InitialTokens(l) /\ last_hit = 0
    /\ ret = FALSE
    /\ admitted = 0
    /\ fault = "none"
    /\ calls = 0 /\ wcalls = 0 /\ fresh = TRUE
    /\ last_call = -1 /\ gap = -1 /\ log = <<>>
    /\ NoDispatcher

Init == \E k \in Kinds, w \in 1..MaxWindow, l \in 1..MaxLimit : New(k, w, l)

\* Every (window, limit) the constructors take: none of them checks its
\* arguments, and Duration and usize both have a zero.
InitAny == \E k \in Kinds, w \in 0..MaxWindow, l \in 0..MaxLimit : New(k, w, l)

\* A token bucket over a window of 49 microseconds: the smallest window at
\* which limit as f64 / window as f64 is not exact enough for one whole
\* window to yield `limit` tokens.
InitF64 == \E l \in 1..MaxLimit : New("TokenBucket", 49, l)

----------------------------------------------------------------------------
(* The caller lets d microseconds pass (thread::sleep in main).             *)

Sleep ==
    \E d \in 1..MaxWindows * MaxWindow :
        /\ fault = "none"
        /\ now + d <= Horizon
        /\ now' = now + d
        /\ calls' = 0
        /\ fresh' = (fresh /\ calls = 0)
        /\ log' = SelectSeq(log, LAMBDA t : t >= now + d - 2 * window)
        /\ UNCHANGED <<dp, cfg, fw, mw, tb, ret, admitted, fault, wcalls, last_call,
                       gap>>

\* The caller waits one accrual interval (window / limit) or one whole window,
\* the waits of a caller that polls a token bucket at its own rate.
SleepInterval ==
    \E d \in {window \div limit, window} :
        /\ fault = "none"
        /\ now + d <= Horizon
        /\ now' = now + d
        /\ calls' = 0
        /\ fresh' = (fresh /\ calls = 0)
        /\ UNCHANGED <<dp, cfg, fw, mw, tb, ret, admitted, fault, wcalls, last_call,
                       gap, log>>

----------------------------------------------------------------------------
(* FixedWindow::allowed *)

\* A window that also ends for a call exactly `window` after window_start.
FixedExpiredInclusive == now - window_start >= window

\* now.duration_since(self.window_start) > self.window
FixedExpired == now - window_start > window

\* A comparison that lets one call too many through.
FixedFullOffByOne(h) == h > limit

\* A window that never fills.
FixedNeverFull(h) == FALSE

\* self.hits >= self.limit, on the count h left by the reset
FixedFull(h) == h >= limit

FixedAllowed ==
    /\ kind = "FixedWindow"
    /\ fault = "none"
    /\ calls < MaxCalls
    /\ LET start == IF FixedExpired THEN now ELSE window_start
           h == IF FixedExpired THEN 0 ELSE hits
       IN /\ window_start' = start
          /\ IF FixedFull(h)
                THEN hits' = h /\ ret' = FALSE
                ELSE hits' = h + 1 /\ ret' = TRUE
          /\ wcalls' = IF now > window_start + window THEN 1 ELSE wcalls + 1
    /\ calls' = calls + 1
    /\ UNCHANGED <<dp, cfg, now, mw, tb, admitted, fault, fresh, last_call, gap, log>>

----------------------------------------------------------------------------
(* MovingWindow::allowed *)

\* A loop condition that tolerates a bucket two windows old.
MovingBehindTwoWindows(s) == now - s.this_start > 2 * window

\* now.duration_since(self.this_start) > self.window, the loop's condition
MovingBehind(s) == now - s.this_start > window

\* A shift that restarts the current bucket at the call instant, as
\* FixedWindow does with its window.
MovingShiftToNow(s) ==
    [prev_start |-> s.this_start,
     prev_count |-> s.this_count,
     this_start |-> now,
     this_count |-> 0]

\* A shift that forgets to move this_start.
MovingShiftNoAdvance(s) ==
    [prev_start |-> s.this_start,
     prev_count |-> s.this_count,
     this_start |-> s.this_start,
     this_count |-> 0]

\* One pass of the loop's body.
MovingShift(s) ==
    [prev_start |-> s.this_start,
     prev_count |-> s.this_count,
     this_start |-> s.this_start + window,
     this_count |-> 0]

\* An `if` in place of the `while`: one shift at most.
CatchUpOnce(s) == IF MovingBehind(s) THEN MovingShift(s) ELSE s

\* The while loop, run to its end, or to a pass that changes nothing: from
\* there on every pass repeats it.
RECURSIVE CatchUp(_)
CatchUp(s) ==
    IF MovingBehind(s) /\ MovingShift(s) # s THEN CatchUp(MovingShift(s)) ELSE s

\* The while loop never ends: it reaches a pass that leaves the fields as
\* they were with its condition still true.
RECURSIVE Diverges(_)
Diverges(s) ==
    MovingBehind(s) /\ (MovingShift(s) = s \/ Diverges(MovingShift(s)))

\* hits_from_last_period, in integer (floor) arithmetic on microseconds
HitsFromLastPeriod(s) ==
    LET this_period == now - s.this_start
        last_period == window - this_period
    IN (s.prev_count * last_period) \div window

\* A comparison that lets one call too many through.
MovingFullOffByOne(s) == s.this_count + HitsFromLastPeriod(s) > limit

\* A test that forgets the current bucket's own count.
MovingFullIgnoresCurrent(s) == HitsFromLastPeriod(s) >= limit

\* self.this_count + hits_from_last_period >= self.limit
MovingFull(s) == s.this_count + HitsFromLastPeriod(s) >= limit

MovingAllowed ==
    /\ kind = "MovingWindow"
    /\ fault = "none"
    /\ calls < MaxCalls
    /\ LET s0 == [prev_start |-> prev_start, prev_count |-> prev_count,
                  this_start |-> this_start, this_count |-> this_count]
           s == CatchUp(s0)
       IN /\ prev_start' = s.prev_start
          /\ prev_count' = s.prev_count
          /\ this_start' = s.this_start
          /\ IF Diverges(s0)
                THEN \* the call stays in the loop
                     /\ fault' = "hang"
                     /\ this_count' = s.this_count /\ ret' = ret /\ log' = log
                ELSE IF window = 0
                THEN \* ... / self.window.as_micros() as usize panics
                     /\ fault' = "div_by_zero"
                     /\ this_count' = s.this_count /\ ret' = ret /\ log' = log
                ELSE IF MovingFull(s)
                THEN /\ fault' = fault
                     /\ this_count' = s.this_count /\ ret' = FALSE /\ log' = log
                ELSE /\ fault' = fault
                     /\ this_count' = s.this_count + 1
                     /\ ret' = TRUE
                     /\ log' = Append(log, now)
    /\ calls' = calls + 1
    /\ last_call' = now
    /\ gap' = IF last_call >= 0 THEN now - last_call ELSE -1
    /\ UNCHANGED <<dp, cfg, now, fw, tb, admitted, wcalls, fresh>>

----------------------------------------------------------------------------
(* f64 arithmetic, as TokenBucket::new_tokens uses it.  A positive f64 is   *)
(* [m, e]: m its 53-bit significand as five digits, the leading 1 and four  *)
(* digits of 13 bits, most significant first; e the exponent of the leading *)
(* bit.  Its value is (2^52 + m[2]*2^39 + m[3]*2^26 + m[4]*2^13 + m[5]) *   *)
(* 2^(e - 52).  Every operation rounds to nearest, ties to even, as IEEE    *)
(* 754 does.  The digits keep every intermediate value below 2^31 for       *)
(* operands below 2^12, which covers the windows and instants of the model. *)

\* 2^13, the base of a significand digit.
Digit == 2^13

\* floor(log2(n / d)) for integers n, d >= 1
RECURSIVE ExpUp(_, _, _)
ExpUp(n, d, e) == IF 2 * d <= n THEN ExpUp(n, 2 * d, e + 1) ELSE e
RECURSIVE ExpDown(_, _, _)
ExpDown(n, d, e) == IF n < d THEN ExpDown(2 * n, d, e - 1) ELSE e
Exponent(n, d) == IF n >= d THEN ExpUp(n, d, 0) ELSE ExpDown(n, d, 0)

\* m + 1 on the significand; all ones carry into the next exponent.
Increment(m, e) ==
    LET c5 == (m[5] + 1) \div Digit
        c4 == (m[4] + c5) \div Digit
        c3 == (m[3] + c4) \div Digit
        c2 == (m[2] + c3) \div Digit
    IN IF c2 = 1
          THEN [m |-> <<1, 0, 0, 0, 0>>, e |-> e + 1]
          ELSE [m |-> <<1, (m[2] + c3) % Digit, (m[3] + c4) % Digit,
                        (m[4] + c5) % Digit, (m[5] + 1) % Digit>>,
                e |-> e]

\* Round to nearest, ties to even: guard is the first dropped bit, sticky
\* says whether any later dropped bit is set.
RoundNearestEven(m, e, guard, sticky) ==
    IF guard /\ (sticky \/ m[5] % 2 = 1) THEN Increment(m, e)
                                         ELSE [m |-> m, e |-> e]

\* n as f64 / d as f64, for integers 1 <= n, d (both exact as f64): the long
\* division of N / D in [1, 2), 52 bits after the leading one.
F64Div(n, d) ==
    LET e == Exponent(n, d)
        N == IF e >= 0 THEN n ELSE n * 2^(-e)
        D == IF e >= 0 THEN d * 2^e ELSE d
        r1 == N - D
        r2 == (r1 * Digit) % D
        r3 == (r2 * Digit) % D
        r4 == (r3 * Digit) % D
        r5 == (r4 * Digit) % D
        m == <<1, (r1 * Digit) \div D, (r2 * Digit) \div D,
                  (r3 * Digit) \div D, (r4 * Digit) \div D>>
    IN RoundNearestEven(m, e, 2 * r5 >= D, (2 * r5) % D # 0)

\* The number of binary digits of n.
RECURSIVE BitLength(_)
BitLength(n) == IF n = 0 THEN 0 ELSE 1 + BitLength(n \div 2)

\* k as f64 * x, for an integer 1 <= k (exact as f64): the exact product
\* p1..p5, shifted right by s bits back to 53 bits, then rounded.
F64MulInt(k, x) ==
    LET t5 == x.m[5] * k
        t4 == x.m[4] * k + t5 \div Digit
        t3 == x.m[3] * k + t4 \div Digit
        t2 == x.m[2] * k + t3 \div Digit
        p1 == x.m[1] * k + t2 \div Digit
        p2 == t2 % Digit
        p3 == t3 % Digit
        p4 == t4 % Digit
        p5 == t5 % Digit
        s == BitLength(p1) - 1
        lo == 2^s
        hi == Digit \div lo
        m == <<p1 \div lo,
               (p1 % lo) * hi + p2 \div lo,
               (p2 % lo) * hi + p3 \div lo,
               (p3 % lo) * hi + p4 \div lo,
               (p4 % lo) * hi + p5 \div lo>>
        dropped == p5 % lo
        guard == s > 0 /\ dropped \div (lo \div 2) = 1
        sticky == s > 0 /\ dropped % (lo \div 2) # 0
    IN RoundNearestEven(m, x.e + s, guard, sticky)

\* x as usize: the integer part (for x < 2^27)
F64ToUsize(x) ==
    IF x.e < 0 THEN 0
    ELSE IF x.e <= 13 THEN 2^x.e + x.m[2] \div 2^(13 - x.e)
    ELSE 2^x.e + x.m[2] * 2^(x.e - 13) + x.m[3] \div 2^(26 - x.e)

----------------------------------------------------------------------------
(* TokenBucket::new_tokens and TokenBucket::allowed *)

\* usize::MAX, written as the integer it is congruent to modulo 2^64: the
\* other usize values of the model are small naturals, and sums are taken
\* modulo 2^64.
UsizeMax == -1

\* (elapsed.as_micros() as f64 * rate) as usize.  With a zero limit or no time
\* elapsed the product is 0.0 or NaN, and both cast to 0; with a zero window
\* the rate is +inf, and the cast of +inf saturates.
NewTokensF64(l, w, elapsed) ==
    IF elapsed = 0 \/ l = 0 THEN 0
    ELSE IF w = 0 THEN UsizeMax
    ELSE F64ToUsize(F64MulInt(elapsed, F64Div(l, w)))

NewTokens == NewTokensF64(limit, window, now - last_hit)

\* A credit without the cap.
CreditUncapped(t, n) == t + n

\* self.tokens + new_tokens does not fit a usize
Overflows(t, n) == n = UsizeMax /\ t > 0

\* How the build treats an overflowing sum: with overflow checks (debug) it
\* panics, without them (release) it wraps.
Builds == {"debug", "release"}

\* A credit that is computed and dropped.
CreditLost(t, n) == t

\* std::cmp::min(self.tokens + new_tokens, self.limit)
Credit(t, n) == IF t + n # UsizeMax /\ t + n < limit THEN t + n ELSE limit

\* A last_hit that follows every call.
LastHitAlways(n) == now

\* if new_tokens > 0 { ...; self.last_hit = now }
LastHitAfter(n) == IF n # 0 THEN now ELSE last_hit

TokenAllowed ==
    /\ kind = "TokenBucket"
    /\ fault = "none"
    /\ calls < MaxCalls
    /\ \E build \in Builds :
        LET n == NewTokens
            t == IF n # 0 THEN Credit(tokens, n) ELSE tokens
        IN IF Overflows(tokens, n) /\ build = "debug"
              THEN \* attempt to add with overflow
                   /\ fault' = "overflow"
                   /\ UNCHANGED <<tb, ret, admitted>>
              ELSE /\ fault' = fault
                   /\ last_hit' = LastHitAfter(n)
                   /\ IF t = 0
                         THEN tokens' = t /\ ret' = FALSE
                              /\ admitted' = admitted
                         ELSE tokens' = t - 1 /\ ret' = TRUE
                              /\ admitted' = admitted + 1
    /\ calls' = calls + 1
    /\ UNCHANGED <<dp, cfg, now, fw, mw, wcalls, fresh, last_call, gap, log>>

----------------------------------------------------------------------------
Next == Sleep \/ FixedAllowed \/ MovingAllowed \/ TokenAllowed

Spec == Init /\ [][Next]_vars

\* The limiters over every configuration the constructors accept.
SpecAny == InitAny /\ [][Next]_vars

\* The token bucket alone, polled at its accrual interval.
NextF64 == SleepInterval \/ TokenAllowed

SpecF64 == InitF64 /\ [][NextF64]_vars

----------------------------------------------------------------------------
(* Dispatcher: new, post, new_consumer, flush *)

lim == <<kind, window, limit, now, fw, mw, tb, ret, admitted, fault, calls,
         wcalls, fresh, last_call, gap, log>>

\* Dispatcher::new: the channel is empty, the consumer task is spawned.
InitDispatcher ==
    \E c \in 1..MaxConcurrency, cl \in Clients :
        /\ kind = "Dispatcher"
        /\ window = 0 /\ limit = 0 /\ now = 0
        /\ window_start = 0 /\ hits = 0
        /\ prev_start = 0 /\ prev_count = 0 /\ this_start = 0 /\ this_count = 0
        /\ tokens = 0 /\ last_hit = 0
        /\ ret = FALSE /\ admitted = 0 /\ fault = "none"
        /\ calls = 0 /\ wcalls = 0 /\ fresh = TRUE
        /\ last_call = -1 /\ gap = -1 /\ log = <<>>
        /\ concurrency = c
        /\ client = cl
        /\ dispatch = "open"
        /\ chan = <<>> /\ in_progress = <<>> /\ received = <<>>
        /\ count = 0
        /\ consumer = "running"
        /\ posted = <<>>

\* mpsc::channel(1)
ChannelCapacity == 1

\* Dispatcher::post: tx.send(body).await returns once the channel has taken
\* the body.
DispatcherPost ==
    \E body \in Bodies :
        /\ dispatch = "open"
        /\ Len(posted) < MaxPosts
        /\ Len(chan) < ChannelCapacity
        /\ chan' = Append(chan, body)
        /\ posted' = Append(posted, body)
        /\ UNCHANGED <<lim, concurrency, client, dispatch, in_progress,
                       received, count, consumer>>

\* A buffer that takes futures without counting them.
HasRoomAlways(q) == TRUE

\* buffer_unordered(concurrency) takes from the stream only while it holds
\* fewer than `concurrency` futures.
HasRoom(q) == Len(q) < concurrency

\* ReceiverStream .map(|val| client.post(val)): the consumer takes the oldest
\* body off the channel and makes its post future, which has not run yet.
ConsumerPull ==
    /\ consumer = "running"
    /\ chan # <<>>
    /\ HasRoom(in_progress)
    /\ in_progress' = Append(in_progress, [body |-> Head(chan), started |-> FALSE])
    /\ chan' = Tail(chan)
    /\ UNCHANGED <<lim, concurrency, client, dispatch, received, count,
                   consumer, posted>>

\* The futures the buffer holds that were not polled yet.
Unstarted(q) == {i \in 1..Len(q) : ~q[i].started}

\* The futures that were polled and are awaiting.
Started(q) == {i \in 1..Len(q) : q[i].started}

\* A buffer that polls the future it took last.
NewestToPoll(q) == CHOOSE i \in Unstarted(q) : \A j \in Unstarted(q) : j <= i

\* The buffer polls the futures it took in the order it took them.
NextToPoll(q) == CHOOSE i \in Unstarted(q) : \A j \in Unstarted(q) : i <= j

Remove(q, i) == SubSeq(q, 1, i - 1) \o SubSeq(q, i + 1, Len(q))

\* stream.next() polls a post future for the first time.  MockClient::post
\* pushes the body and returns Ok at once, and the loop calls success(count);
\* ReqwestClient::post sends the request and awaits.
PostStart ==
    /\ consumer = "running"
    /\ Unstarted(in_progress) # {}
    /\ LET i == NextToPoll(in_progress)
       IN IF client = "MockClient"
             THEN /\ received' = Append(received, in_progress[i].body)
                  /\ in_progress' = Remove(in_progress, i)
                  /\ count' = count + 1
             ELSE /\ in_progress' = [in_progress EXCEPT ![i].started = TRUE]
                  /\ UNCHANGED <<received, count>>
    /\ UNCHANGED <<lim, concurrency, client, dispatch, chan, consumer, posted>>

\* A ReqwestClient post that was awaiting completes, in any order: the server
\* has the body, or the request failed; the loop counts a success or prints the
\* error.
PostComplete ==
    \E i \in Started(in_progress), ok \in BOOLEAN :
        /\ consumer = "running"
        /\ in_progress' = Remove(in_progress, i)
        /\ received' = Append(received, in_progress[i].body)
        /\ count' = IF ok THEN count + 1 ELSE count
        /\ UNCHANGED <<lim, concurrency, client, dispatch, chan, consumer,
                       posted>>

\* Dispatcher::flush, first half: drop(self.tx)
DispatcherFlush ==
    /\ dispatch = "open"
    /\ dispatch' = "flushing"
    /\ UNCHANGED <<lim, concurrency, client, chan, in_progress, received,
                   count, consumer, posted>>

\* The stream ends: the channel is closed and drained and the buffer holds no
\* future, so stream.next() yields None and the consumer task returns.
ConsumerEnd ==
    /\ consumer = "running"
    /\ dispatch # "open"
    /\ chan = <<>>
    /\ in_progress = <<>>
    /\ consumer' = "finished"
    /\ UNCHANGED <<lim, concurrency, client, dispatch, chan, in_progress,
                   received, count, posted>>

\* Dispatcher::flush, second half: self.consumer.await has the task's result.
FlushReturn ==
    /\ dispatch = "flushing"
    /\ consumer = "finished"
    /\ dispatch' = "flushed"
    /\ UNCHANGED <<lim, concurrency, client, chan, in_progress, received,
                   count, consumer, posted>>

NextDispatcher ==
    \/ DispatcherPost
    \/ ConsumerPull
    \/ PostStart
    \/ PostComplete
    \/ DispatcherFlush
    \/ ConsumerEnd
    \/ FlushReturn

SpecDispatcher == InitDispatcher /\ [][NextDispatcher]_vars

----------------------------------------------------------------------------
(* FixedWindow *)

\* C1: in a FixedWindow with limit >= 1, among the calls made since
\* window_start was last set (none of which resets the window), exactly the
\* first `limit` return true and every later one returns false; so on a fresh
\* limiter `limit` calls at the construction instant are admitted and the next
\* one at that instant is denied.
FixedWindowBurst ==
    (kind = "FixedWindow" /\ wcalls >= 1) => (ret <=> wcalls <= limit)

\* The call after the first `limit` ones at the construction instant was denied.
FixedWindowBurstWitness ==
    /\ kind = "FixedWindow"
    /\ now = 0
    /\ wcalls = limit + 1
    /\ calls = limit + 1
    /\ ~ret

\* C2: a FixedWindow call arriving exactly `window` after window_start does not
\* reset the window (window_start stays, the count is not reset, and the call
\* is denied when hits = limit); a call arriving strictly later sets
\* window_start to the call instant and is admitted, leaving hits = 1.
FixedWindowBoundary ==
    [][(kind = "FixedWindow" /\ calls' = calls + 1) =>
          /\ now = window_start + window =>
                /\ window_start' = window_start
                /\ hits' >= hits
                /\ hits = limit => (~ret' /\ hits' = hits)
          /\ now > window_start + window =>
                /\ window_start' = now
                /\ hits' = 1
                /\ ret']_vars

\* A call exactly `window` after window_start was denied by the full old window.
FixedWindowBoundaryWitness ==
    /\ kind = "FixedWindow"
    /\ calls >= 1
    /\ now = window_start + window
    /\ hits = limit
    /\ ~ret

\* C7: in every reachable state of a FixedWindow with limit >= 1,
\* 0 <= hits <= limit.
FixedWindowCounterBound ==
    kind = "FixedWindow" => (0 <= hits /\ hits <= limit)

\* A call found the window full and was denied with hits = limit.
FixedWindowCounterBoundWitness ==
    /\ kind = "FixedWindow"
    /\ wcalls > limit
    /\ hits = limit
    /\ ~ret

----------------------------------------------------------------------------
(* MovingWindow *)

\* The bucket an instant falls in: bucket 0 is [0, window], bucket k >= 1 is
\* (k * window, (k + 1) * window], by the strict comparison of the loop.
Bucket(t) == IF t <= window THEN 0 ELSE (t - 1) \div window

\* The number of admitted calls on record whose instant lies in the set S.
Admitted(S) == Len(SelectSeq(log, LAMBDA t : t \in S))

\* The instants of the two latest buckets, and of the latest 2 * window
\* microseconds without and with their first instant.
TwoBuckets == {t \in 0..now : Bucket(t) >= Bucket(now) - 1}
TwoWindows == {t \in 0..now : t > now - 2 * window}
TwoWindowsClosed == {t \in 0..now : t >= now - 2 * window}

\* C5: when a MovingWindow call comes more than 2 * window after the previous
\* call, the catch-up leaves both buckets empty before the decision, so the
\* call is admitted as on a fresh limiter: it returns true, this_count is 1
\* and prev_count is 0.
MovingWindowDecay ==
    (kind = "MovingWindow" /\ gap > 2 * window) =>
        (prev_count = 0 /\ this_count = 1 /\ ret)

\* A call came more than two windows after the one before it.
MovingWindowDecayWitness ==
    /\ kind = "MovingWindow"
    /\ gap > 2 * window
    /\ calls = 1
    /\ last_call = now
    /\ this_start >= 2 * window

\* C6 as stated: the calls admitted in any interval made of two adjacent
\* window-length periods (the 2 * window microseconds up to `now`) never
\* number more than 2 * limit.
TwoWindowBound ==
    kind = "MovingWindow" =>
        Admitted(TwoWindows) <= 2 * limit

\* C6 as amended: the calls admitted in two adjacent buckets of the limiter
\* (the bucket of `now` and the one before it) never number more than
\* 2 * limit, and the calls admitted in any interval of length 2 * window
\* never number more than 3 * limit.
TwoWindowBoundAmended ==
    kind = "MovingWindow" =>
        /\ Admitted(TwoBuckets) <= 2 * limit
        /\ Admitted(TwoWindowsClosed) <= 3 * limit

\* 3 * limit calls were admitted within 2 * window microseconds, 2 * limit of
\* them in the two latest buckets.
TwoWindowBoundWitness ==
    /\ kind = "MovingWindow"
    /\ Admitted(TwoWindows) = 3 * limit
    /\ Admitted(TwoBuckets) = 2 * limit

\* C8: in every reachable state of a MovingWindow, prev_count and this_count
\* both lie in [0, limit], also after the catch-up loop has copied this_count
\* into prev_count.
MovingWindowCounterBound ==
    kind = "MovingWindow" =>
        /\ 0 <= prev_count /\ prev_count <= limit
        /\ 0 <= this_count /\ this_count <= limit

\* A full bucket was shifted into prev_count and the current one filled again.
MovingWindowCounterBoundWitness ==
    /\ kind = "MovingWindow"
    /\ prev_count = limit
    /\ this_count = limit
    /\ this_start > 0

\* C10 as stated: in every reachable state of a MovingWindow, the state right
\* after construction included, this_start = prev_start + window.
BucketAdjacency ==
    kind = "MovingWindow" => this_start = prev_start + window

\* C10 as amended: this_start = prev_start + window in every state reached
\* after the catch-up loop has shifted at least once; until then, from
\* construction on, this_start = prev_start (both the construction instant).
BucketAdjacencyAmended ==
    kind = "MovingWindow" =>
        IF this_start = 0 THEN prev_start = this_start
                          ELSE this_start = prev_start + window

\* The catch-up loop has shifted the buckets during a call.
BucketAdjacencyWitness ==
    /\ kind = "MovingWindow"
    /\ calls >= 1
    /\ this_start >= 2 * window
    /\ this_start = prev_start + window

----------------------------------------------------------------------------
(* TokenBucket *)

\* C3: a freshly constructed TokenBucket has tokens = 0 and its calls with
\* zero elapsed time return false; a call made exactly window / limit after
\* construction returns true; and the calls after that crediting call return
\* false until another window / limit has elapsed since it.
TokenBucketColdStart ==
    kind = "TokenBucket" =>
        /\ (now = 0 /\ calls = 0) => tokens = 0
        /\ (now = 0 /\ calls >= 1) => ~ret
        /\ (calls = 1 /\ now * limit = window) => ret
        /\ ( /\ calls >= 1
             /\ last_hit * limit = window
             /\ now > last_hit \/ calls >= 2
             /\ (now - last_hit) * limit < window ) => ~ret

\* C4: when the first call made on a TokenBucket comes after an idle period of
\* at least one full window, exactly `limit` consecutive calls at that instant
\* return true and the next call at that instant returns false.
TokenBucketBurstAfterIdle ==
    (kind = "TokenBucket" /\ fresh /\ calls >= 1 /\ now >= window) =>
        (ret <=> calls <= limit)

\* C9: in every reachable state of a TokenBucket, 0 <= tokens <= limit: a
\* credit is capped at limit and a token is only spent when there is one.
TokenBucketCounterBound ==
    kind = "TokenBucket" => (0 <= tokens /\ tokens <= limit)

\* The first call came two windows after construction, when 2 * limit tokens
\* had accrued: the credit was cut to limit and one token spent.
TokenBucketCounterBoundWitness ==
    /\ kind = "TokenBucket"
    /\ fresh
    /\ calls = 1
    /\ now >= 2 * window
    /\ last_hit = now
    /\ ret
    /\ tokens = limit - 1

\* C11: a TokenBucket call changes last_hit, to the call instant, if and only
\* if the new_tokens it computed is greater than 0; with new_tokens = 0 it
\* leaves last_hit as it was.
LastHitFrame ==
    [][(kind = "TokenBucket" /\ calls' = calls + 1) =>
          /\ NewTokens > 0 => (last_hit' = now /\ last_hit' # last_hit)
          /\ NewTokens = 0 => last_hit' = last_hit]_vars

\* After an earlier credit, a call that found no whole token accrued left
\* last_hit behind the call instant.
LastHitFrameWitness ==
    /\ kind = "TokenBucket"
    /\ calls >= 1
    /\ 0 < last_hit
    /\ last_hit < now

\* C12: however closely a TokenBucket is polled, the sub-token progress is
\* kept, so a call that arrives at or after last_hit + window / limit is
\* credited at least one token (last_hit moves to the call instant) and is
\* admitted.
NoStarvation ==
    [][(/\ kind = "TokenBucket"
        /\ calls' = calls + 1
        /\ (now - last_hit) * limit >= window) =>
            (last_hit' = now /\ ret')]_vars

----------------------------------------------------------------------------
(* Construction and termination *)

\* C13: each of the three constructors rejects window <= 0 and limit = 0, so
\* no limiter with a zero window or a zero limit is ever reachable and no
\* allowed() call divides by zero.
ConstructionValidated ==
    /\ window > 0
    /\ limit > 0
    /\ fault # "div_by_zero"

ThisStartLattice ==
    /\ [](this_start >= 0 /\ this_start % window = 0)
    /\ [][this_start' >= this_start]_vars

\* Two buckets with admitted calls in each, the second started two windows
\* after construction.
ThisStartLatticeWitness ==
    /\ kind = "MovingWindow"
    /\ this_start = 2 * window /\ prev_start = window
    /\ prev_count > 0 /\ this_count > 0

\* C17: after the catch-up loop of a MovingWindow call, 0 <= now - this_start
\* <= window, so window - (now - this_start) does not underflow, and the
\* hits carried over from the previous bucket are no more than prev_count.
CarryBound ==
    [][(kind = "MovingWindow" /\ calls' = calls + 1) =>
          LET carried == HitsFromLastPeriod([prev_count |-> prev_count',
                                             this_start |-> this_start'])
          IN /\ 0 <= now - this_start'
             /\ now - this_start' <= window
             /\ 0 <= carried
             /\ carried <= prev_count']_vars

\* A call made strictly inside a bucket whose predecessor admitted calls.
CarryBoundWitness ==
    /\ kind = "MovingWindow" /\ calls >= 1
    /\ prev_count > 0
    /\ 0 < now - this_start /\ now - this_start < window

----------------------------------------------------------------------------
(* Dispatcher *)

\* How many times the body b occurs in the sequence q.
Occurrences(q, b) == Len(SelectSeq(q, LAMBDA x : x = b))

\* C15: when flush() has returned, the client has received every posted body
\* exactly once, and a client whose post completes immediately has received
\* them in the order they were posted, whatever the concurrency (>= 1).
DispatcherDelivery ==
    dispatch = "flushed" =>
        /\ \A b \in Bodies : Occurrences(received, b) = Occurrences(posted, b)
        /\ client = "MockClient" => received = posted

\* A flushed dispatcher of concurrency 2 whose MockClient was posted MaxPosts
\* bodies, not all the same.
DispatcherDeliveryWitness ==
    /\ dispatch = "flushed"
    /\ client = "MockClient"
    /\ concurrency = 2
    /\ Len(posted) = MaxPosts
    /\ posted[1] # posted[2]

\* C20: at every moment at most `concurrency` client posts are started and not
\* completed, however far ahead the producer is, and flush() returns only after
\* every post has completed.
InFlightBound ==
    /\ Cardinality(Started(in_progress)) <= concurrency
    /\ Len(in_progress) <= concurrency
    /\ dispatch = "flushed" =>
          /\ in_progress = <<>>
          /\ chan = <<>>
          /\ Len(received) = Len(posted)

\* The buffer is full of awaiting posts and the producer has its next body in
\* the channel.
InFlightBoundWitness ==
    /\ client = "ReqwestClient"
    /\ concurrency >= 1
    /\ Cardinality(Started(in_progress)) = concurrency
    /\ chan # <<>>

====
